---- MODULE Spec2Model ----
(***************************************************************************)
(* cmdmock: a trainer that records the output of command invocations in an *)
(* InvocationSet and generates a replay script (the artifact) from it.     *)
(*                                                                         *)
(* Text is modelled as a sequence of one-character strings, so that        *)
(* endswith, str()/repr() of Python values, the literal embedded in the    *)
(* artifact and its evaluation by the interpreter are computed character   *)
(* by character.                                                           *)
(***************************************************************************)
EXTENDS Integers, Sequences, FiniteSets, TLC

VARIABLES
    cmd,            \* InvocationSet.cmd: the root command
    invocations,    \* InvocationSet.invocations: invocation hash -> ops_and_args
    responses,      \* InvocationSet.responses: output hash -> output
    call_map,       \* InvocationSet.call_map: invocation hash -> output hash
    last,           \* what the most recent add_invocation call did
    ncalls,         \* number of add_invocation calls made so far
    observed,       \* history: argument sequence -> output of its latest accepted call
    captured,       \* history: every output get_response has returned
    proc,           \* the trainer process: training, done, or how it ended
    file,           \* the artifact <cmd>.gpy on disk
    run,            \* the most recent run of the artifact
    cmdline,        \* the trainer's command line: training file and positionals
    lineno,         \* number of the training-file line main reads next
    summary         \* the counts summarize last logged

vars == <<cmd, invocations, responses, call_map, last, ncalls, observed,
          captured, proc, file, run, cmdline, lineno, summary>>

\* State of main outside the store, the artifact and its runs.
mainvars == <<cmdline, lineno, summary>>

-----------------------------------------------------------------------------
(* Bounds and input sets *)

\* Number of add_invocation calls in one training session.
MaxCalls == 3

ls  == <<"l", "s">>
sls == <<"/", "l", "s">>
s1  == <<"s">>
da  == <<"-", "a">>
dl  == <<"-", "l">>

RootCommand == ls

\* Full invocations handed to add_invocation: the empty list, the bare
\* command, the command with arguments, a full-path spelling of it, and a
\* leading token that does not end with the root command.
Invocations ==
    { <<>>, <<ls>>, <<ls, da>>, <<sls, da>>, <<ls, da, dl>>, <<s1, da>> }

\* Outputs the external command may produce (newline, quotes and backslash
\* are the characters repr() treats specially).
Outputs ==
    { <<"a", "\n">>, <<"'", "\\">>, <<"'", "\"">> }

\* Process arguments (argv[1:]) the artifact may be run with.
ArgSeqs == { <<>>, <<da>>, <<da, dl>>, <<dl>> }

EmptyDict == [k \in {} |-> k]

uname == <<"u", "n", "a", "m", "e">>

\* Training files, as the lines the file object yields.
UnameArgsFile == << <<"u", "n", "a", "m", "e", "\n">>,
                    <<"-", "a", "\n">> >>
UnameFullFile == << <<"u", "n", "a", "m", "e", "\n">>,
                    <<"u", "n", "a", "m", "e", " ", "-", "a", "\n">> >>
EmptyFirstLineFile == << <<"\n">>, <<"l", "s", " ", "-", "a", "\n">> >>
EmptyFile == << >>
GoodFile == << <<"l", "s", "\n">>, <<"l", "s", " ", "-", "a", "\n">>,
               <<"/", "l", "s", " ", " ", "-", "a", "\n">>,
               <<"l", "s">> >>
MismatchFile == << <<"l", "s", "\n">>, <<"l", "s", " ", "-", "a", "\n">>,
                   <<"s", " ", "-", "a", "\n">>,
                   <<"l", "s", "\n">> >>
BlankLineFile == << <<"l", "s", "\n">>, <<"l", "s", "\n">>,
                    <<"\n">> >>

TrainingFiles ==
    { UnameArgsFile, UnameFullFile, EmptyFirstLineFile, EmptyFile, GoodFile,
      MismatchFile, BlankLineFile }

\* No -f option on the command line (args.training_file is None).
NoTrainingFile == << <<"None">> >>

\* Command lines of the trainer.
CommandLines ==
    [training_file : TrainingFiles \cup {NoTrainingFile},
     positional : { <<>>, <<ls, da>> }]

\* The store used on its own, without main.
NoCommandLine == [training_file |-> NoTrainingFile, positional |-> <<>>]

-----------------------------------------------------------------------------
(* Python text primitives *)

HasChar(str, c) == \E i \in 1..Len(str) : str[i] = c

\* str.endswith(suffix)
EndsWith(str, suffix) ==
    /\ Len(suffix) <= Len(str)
    /\ \A i \in 1..Len(suffix) : str[Len(str) - Len(suffix) + i] = suffix[i]

IsSpace(c) == c = " " \/ c = "\n"

\* str.split(): the maximal runs of non-whitespace characters.
RECURSIVE SplitFrom(_, _, _)
SplitFrom(str, word, acc) ==
    IF str = <<>> THEN (IF word = <<>> THEN acc ELSE Append(acc, word))
    ELSE IF IsSpace(Head(str))
    THEN SplitFrom(Tail(str), <<>>,
                   IF word = <<>> THEN acc ELSE Append(acc, word))
    ELSE SplitFrom(Tail(str), Append(word, Head(str)), acc)

Split(str) == SplitFrom(str, <<>>, <<>>)

\* str.strip('\n'): leading and trailing newlines removed.
RECURSIVE StripNewline(_)
StripNewline(str) ==
    IF str = <<>> THEN <<>>
    ELSE IF Head(str) = "\n" THEN StripNewline(Tail(str))
    ELSE IF str[Len(str)] = "\n" THEN StripNewline(SubSeq(str, 1, Len(str) - 1))
    ELSE str

\* repr() of a str: single quotes unless the text holds a single quote and
\* no double quote; the quote character and the backslash are escaped with
\* a backslash, a newline is written \n.
ReprQuote(str) ==
    IF HasChar(str, "'") /\ ~HasChar(str, "\"") THEN "\"" ELSE "'"

RECURSIVE ReprBody(_, _)
ReprBody(str, quote) ==
    IF str = <<>> THEN <<>>
    ELSE LET c == Head(str)
             e == IF c = quote \/ c = "\\" THEN <<"\\", c>>
                  ELSE IF c = "\n" THEN <<"\\", "n">>
                  ELSE <<c>>
         IN  e \o ReprBody(Tail(str), quote)

PyRepr(str) ==
    LET q == ReprQuote(str) IN <<q>> \o ReprBody(str, q) \o <<q>>

\* ", ".join(items)
RECURSIVE JoinComma(_)
JoinComma(items) ==
    IF items = <<>> THEN <<>>
    ELSE IF Len(items) = 1 THEN items[1]
    ELSE items[1] \o <<",", " ">> \o JoinComma(Tail(items))

\* str() of a list of str
ListRepr(list) ==
    <<"[">> \o JoinComma([i \in 1..Len(list) |-> PyRepr(list[i])]) \o <<"]">>

\* A Python value that is either a str or a list of str.
PyStrObj(str) == [type |-> "str", val |-> str]
PyListObj(list) == [type |-> "list", val |-> list]

\* str(obj)
PyStr(obj) == IF obj.type = "str" THEN obj.val ELSE ListRepr(obj.val)

\* Two hexadecimal digits per character.
HexOf(c) ==
    CASE c = "a"  -> <<"6", "1">>
      [] c = "l"  -> <<"6", "c">>
      [] c = "-"  -> <<"2", "d">>
      [] c = "'"  -> <<"2", "7">>
      [] c = "\"" -> <<"2", "2">>
      [] c = "\\" -> <<"5", "c">>
      [] c = "\n" -> <<"0", "a">>
      [] c = "["  -> <<"5", "b">>
      [] c = "]"  -> <<"5", "d">>
      [] c = ","  -> <<"2", "c">>
      [] c = " "  -> <<"2", "0">>
      [] c = "s"  -> <<"7", "3">>
      [] c = "/"  -> <<"2", "f">>
      [] c = "u"  -> <<"7", "5">>
      [] c = "n"  -> <<"6", "e">>
      [] c = "m"  -> <<"6", "d">>
      [] c = "e"  -> <<"6", "5">>

\* hashlib.md5(text).hexdigest(): a text of hexadecimal digits that is a
\* function of the input text.  The digest is taken to be collision free:
\* it is the hexadecimal encoding of the text.
RECURSIVE md5(_)
md5(text) == IF text = <<>> THEN <<>> ELSE HexOf(Head(text)) \o md5(Tail(text))

-----------------------------------------------------------------------------
(* InvocationSet.add_invocation *)

NoCall ==
    [op |-> "none", invocation |-> <<>>, output |-> <<>>, raised |-> "none",
     executed |-> FALSE, warned |-> FALSE, repeated |-> FALSE,
     alias |-> FALSE]

\* invocation[0].endswith(self.cmd)
MatchesSwapped(invocation) == EndsWith(cmd, invocation[1])
Matches(invocation) == EndsWith(invocation[1], cmd)

\* The exception the validation of add_invocation raises, or "none".
\* Indexing an empty list raises IndexError before endswith is reached.
Validate(invocation) ==
    IF Len(invocation) = 0 THEN "IndexError"
    ELSE IF ~Matches(invocation) THEN "ValueError"
    ELSE "none"

\* ops_and_args: the arguments after the command, or the str '' when there
\* are none.
OpsAndArgsWhole(invocation) ==
    IF Len(invocation) > 1 THEN PyListObj(invocation)
    ELSE PyStrObj(<<>>)
OpsAndArgs(invocation) ==
    IF Len(invocation) > 1 THEN PyListObj(Tail(invocation))
    ELSE PyStrObj(<<>>)

\* invocation_hash = hashlib.md5(str(ops_and_args)).hexdigest()
InvocationHashByCall(invocation) ==
    md5(PyStr(OpsAndArgs(invocation))) \o [i \in 1..ncalls |-> "0"]
InvocationHash(invocation) == md5(PyStr(OpsAndArgs(invocation)))

\* output_hash = hashlib.md5(output).hexdigest()
OutputHashByCall(output) == md5(output) \o [i \in 1..ncalls |-> "0"]
OutputHash(output) == md5(output)

\* The condition of the "New response for equivalent invocation" warning.
DriftWarning(invocation_hash, output_hash) ==
    /\ output_hash \notin DOMAIN responses
    /\ invocation_hash \in DOMAIN invocations

\* if output_hash not in self.responses: self.responses[output_hash] = output
ResponsesSwapped(output_hash, output) ==
    IF output_hash \notin DOMAIN responses
    THEN (output :> output_hash) @@ responses
    ELSE responses
ResponsesOnlyLatest(output_hash, output) == (output_hash :> output)
ResponsesAfter(output_hash, output) ==
    IF output_hash \notin DOMAIN responses
    THEN (output_hash :> output) @@ responses
    ELSE responses

\* if invocation_hash not in self.invocations: ... = ops_and_args
InvocationsInverted(invocation_hash, ops_and_args) ==
    IF invocation_hash \in DOMAIN invocations
    THEN (invocation_hash :> ops_and_args) @@ invocations
    ELSE invocations
InvocationsAfter(invocation_hash, ops_and_args) ==
    IF invocation_hash \notin DOMAIN invocations
    THEN (invocation_hash :> ops_and_args) @@ invocations
    ELSE invocations

\* self.call_map[invocation_hash] = output_hash
CallMapFirstWins(invocation_hash, output_hash) ==
    IF invocation_hash \in DOMAIN call_map THEN call_map
    ELSE (invocation_hash :> output_hash) @@ call_map
CallMapAfter(invocation_hash, output_hash) ==
    (invocation_hash :> output_hash) @@ call_map

\* History: the call repeats the call before it, invocation and output.
Repeats(invocation, output) ==
    /\ last.op = "add_invocation"
    /\ last.invocation = invocation
    /\ last.output = output

\* History: the call before it was accepted with the same arguments under
\* another leading token.
Aliases(invocation) ==
    /\ last.op = "add_invocation"
    /\ last.raised = "none"
    /\ Tail(last.invocation) = Tail(invocation)
    /\ last.invocation[1] # invocation[1]

\* add_invocation(invocation), the external command answering `output`
\* when it is run.
AddInvocationBody(invocation, output) ==
    /\ ncalls' = ncalls + 1
    /\ IF Validate(invocation) # "none"
       THEN /\ last' = [op |-> "add_invocation", invocation |-> invocation,
                        output |-> <<>>, raised |-> Validate(invocation),
                        executed |-> FALSE, warned |-> FALSE,
                        repeated |-> Repeats(invocation, <<>>),
                        alias |-> FALSE]
            /\ UNCHANGED <<invocations, responses, call_map, observed, captured>>
       ELSE LET ops_and_args == OpsAndArgs(invocation)
                invocation_hash == InvocationHash(invocation)
                output_hash == OutputHash(output)
            IN  /\ last' = [op |-> "add_invocation", invocation |-> invocation,
                            output |-> output, raised |-> "none",
                            executed |-> TRUE,
                            warned |-> DriftWarning(invocation_hash, output_hash),
                            repeated |-> Repeats(invocation, output),
                            alias |-> Aliases(invocation)]
                /\ responses' = ResponsesAfter(output_hash, output)
                /\ invocations' = InvocationsAfter(invocation_hash, ops_and_args)
                /\ call_map' = CallMapAfter(invocation_hash, output_hash)
                /\ observed' = (Tail(invocation) :> output) @@ observed
                /\ captured' = captured \cup {output}

\* A call of add_invocation on a store used on its own.
AddInvocation(invocation, output) ==
    /\ proc = "training"
    /\ ncalls < MaxCalls
    /\ AddInvocationBody(invocation, output)
    /\ UNCHANGED <<cmd, proc, file, run, mainvars>>

-----------------------------------------------------------------------------
(* InvocationSet.serialize and write_mock_cmd *)

\* The keys of a dict in the order str() lists them.
RECURSIVE KeyOrder(_)
KeyOrder(keys) ==
    IF keys = {} THEN <<>>
    ELSE LET k == CHOOSE x \in keys : TRUE IN <<k>> \o KeyOrder(keys \ {k})

\* str() of a dict whose keys and values are str
DictRepr(dict) ==
    LET order == KeyOrder(DOMAIN dict)
        items == [i \in 1..Len(order) |->
                    PyRepr(order[i]) \o <<":", " ">> \o PyRepr(dict[order[i]])]
    IN  <<"{">> \o JoinComma(items) \o <<"}">>

CallMapText == <<"C", "A", "L", "L", "_", "M", "A", "P", " ", "=", " ">>
OutputsText == <<"\n", "\n", "O", "U", "T", "P", "U", "T", "S", " ", "=", " ">>

\* "CALL_MAP = %s\n\nOUTPUTS = %s\n" % (str(self.call_map), str(self.responses))
SerializeSwapped ==
    CallMapText \o DictRepr(responses) \o OutputsText \o DictRepr(call_map)
    \o <<"\n">>
Serialize ==
    CallMapText \o DictRepr(call_map) \o OutputsText \o DictRepr(responses)
    \o <<"\n">>

NoFile == [exists |-> FALSE, text |-> <<>>, executable |-> FALSE]

\* write_mock_cmd(vocab): the file is written unless opening it raises
\* IOError (sys.exit(1)); then chmod a+x is spawned, which sets the bit,
\* fails, or cannot be spawned at all (Popen raises OSError).
WriteMockCmd(opened, chmod) ==
    /\ proc \in {"training", "summarized"}
    /\ IF ~opened
       THEN /\ proc' = "IOError"
            /\ file' = NoFile
       ELSE /\ file' = [exists |-> TRUE, text |-> Serialize,
                        executable |-> (chmod = "ok")]
            /\ proc' = IF chmod = "unavailable" THEN "OSError" ELSE "done"
    /\ UNCHANGED <<cmd, invocations, responses, call_map, last, ncalls,
                   observed, captured, run, mainvars>>

-----------------------------------------------------------------------------
(* The generated artifact: loading its tables and its main(argv) *)

\* The character an escape sequence \e of a string literal stands for.
Unescape(e) == IF e = "n" THEN "\n" ELSE e

\* Evaluation of the string literal opening at text[i] with quote q: the
\* str it denotes and the index after its closing quote.
RECURSIVE StrLitBody(_, _, _, _)
StrLitBody(text, i, q, acc) ==
    IF text[i] = q THEN [val |-> acc, next |-> i + 1]
    ELSE IF text[i] = "\\"
    THEN StrLitBody(text, i + 2, q, Append(acc, Unescape(text[i + 1])))
    ELSE StrLitBody(text, i + 1, q, Append(acc, text[i]))

StrLit(text, i) == StrLitBody(text, i + 1, text[i], <<>>)

\* Evaluation of the dict display whose first item, or closing brace, is at
\* text[i]: items are "key: value" separated by ", "; a later item
\* replaces an earlier one with the same key.
RECURSIVE DictBody(_, _, _)
DictBody(text, i, acc) ==
    IF text[i] = "}" THEN [val |-> acc, next |-> i + 1]
    ELSE LET k == StrLit(text, i)
             v == StrLit(text, k.next + 2)
             j == IF text[v.next] = "," THEN v.next + 2 ELSE v.next
         IN  DictBody(text, j, (k.val :> v.val) @@ acc)

DictLit(text, i) == DictBody(text, i + 1, EmptyDict)

\* The module-level assignments of the artifact, as the interpreter
\* evaluates them: CALL_MAP = {...} and OUTPUTS = {...}.
LoadTables(text) ==
    LET cm == DictLit(text, Len(CallMapText) + 1)
        out == DictLit(text, cm.next + Len(OutputsText))
    IN  [CALL_MAP |-> cm.val, OUTPUTS |-> out.val]

UnsupportedMsg ==
    "Unsupported argument, re-run cmdmock with this argument included"

\* invocation_hash of the artifact's main(argv)
ArtifactHashEmptyList(argv) == md5(ListRepr(Tail(argv)))
ArtifactHash(argv) ==
    IF Len(argv) > 1 THEN md5(ListRepr(Tail(argv))) ELSE md5(<<>>)

\* The exit status of the artifact: main returns None on a hit
\* (sys.exit(None) is status 0); on a miss the uncaught ValueError ends the
\* interpreter with status 1.
ExitStatusNoRaise(hit) == 0
ExitStatus(hit) == IF hit THEN 0 ELSE 1

\* What the print statement writes for a str: the str and a newline.
PrintStmt(str) == str \o <<"\n">>

NoRun ==
    [ran |-> FALSE, argv |-> <<>>, invocation_hash |-> <<>>, hit |-> FALSE,
     printed |-> <<>>, stdout |-> <<>>, status |-> 0]

\* One run of the artifact with process arguments args: a hit prints
\* OUTPUTS[CALL_MAP[invocation_hash]]; a miss prints the message and
\* raises ValueError.
RunArtifact(args) ==
    /\ file.exists
    /\ LET argv == <<cmd>> \o args
           tables == LoadTables(file.text)
           invocation_hash == ArtifactHash(argv)
           hit == invocation_hash \in DOMAIN tables.CALL_MAP
           printed == IF hit
                      THEN tables.OUTPUTS[tables.CALL_MAP[invocation_hash]]
                      ELSE <<UnsupportedMsg>>
       IN  run' = [ran |-> TRUE, argv |-> argv,
                   invocation_hash |-> invocation_hash, hit |-> hit,
                   printed |-> printed, stdout |-> PrintStmt(printed),
                   status |-> ExitStatus(hit)]
    /\ UNCHANGED <<cmd, invocations, responses, call_map, last, ncalls,
                   observed, captured, proc, file, mainvars>>

-----------------------------------------------------------------------------
(* main *)

NoSummary == <<-1, -1, -1>>

\* summarize(): the three counts it logs.
Summarize ==
    <<Cardinality(DOMAIN invocations), Cardinality(DOMAIN responses),
      Cardinality(DOMAIN call_map)>>

\* handle_args() and the branch of main it leads to.  The parser defines
\* only -f and -v: a positional argument is an unrecognized argument
\* (parser.error, exit status 2); without -f main reads args.invocation,
\* an attribute the parser never sets (AttributeError).
MainStart ==
    /\ proc = "start"
    /\ proc' = IF cmdline.positional # <<>> THEN "SystemExit2"
               ELSE IF cmdline.training_file # NoTrainingFile THEN "file_mode"
               ELSE "AttributeError"
    /\ UNCHANGED <<cmd, invocations, responses, call_map, last, ncalls,
                   observed, captured, file, run, mainvars>>

\* training_file.readline(): the next line, or '' at the end of the file.
ReadLine ==
    IF lineno <= Len(cmdline.training_file)
    THEN cmdline.training_file[lineno] ELSE <<>>

\* first_line = training_file.readline().strip('\n');
\* vocab = InvocationSet(first_line)
MainFirstLine ==
    /\ proc = "file_mode"
    /\ cmd' = StripNewline(ReadLine)
    /\ invocations' = EmptyDict
    /\ responses' = EmptyDict
    /\ call_map' = EmptyDict
    /\ lineno' = lineno + 1
    /\ proc' = "loop"
    /\ UNCHANGED <<last, ncalls, observed, captured, file, run, cmdline,
                   summary>>

\* The invocation main hands to add_invocation for a line: line.split()
LineAsArgs(line) == <<cmd>> \o Split(line)
LineInvocation(line) == Split(line)

\* Where main is after a call of add_invocation: an exception it raised
\* leaves main (and ends the process), otherwise the loop goes on.
ProcAfterCallSwallowed(raised) == "loop"
ProcAfterCall(raised) == IF raised # "none" THEN raised ELSE "loop"

\* for line in training_file: vocab.add_invocation(line.split())
MainTrainLine(output) ==
    /\ proc = "loop"
    /\ lineno <= Len(cmdline.training_file)
    /\ AddInvocationBody(LineInvocation(ReadLine), output)
    /\ lineno' = lineno + 1
    /\ proc' = ProcAfterCall(last'.raised)
    /\ UNCHANGED <<cmd, file, run, cmdline, summary>>

\* vocab.summarize(), after the last line
MainSummarizeDraining ==
    /\ proc = "loop"
    /\ lineno > Len(cmdline.training_file)
    /\ summary' = Summarize
    /\ proc' = "summarized"
    /\ invocations' = EmptyDict
    /\ UNCHANGED <<cmd, responses, call_map, last, ncalls,
                   observed, captured, file, run, cmdline, lineno>>
MainSummarize ==
    /\ proc = "loop"
    /\ lineno > Len(cmdline.training_file)
    /\ summary' = Summarize
    /\ proc' = "summarized"
    /\ UNCHANGED <<cmd, invocations, responses, call_map, last, ncalls,
                   observed, captured, file, run, cmdline, lineno>>

-----------------------------------------------------------------------------
(* The specification *)

\* InvocationSet(cmd): an empty store bound to the root command.
Init ==
    /\ cmd = RootCommand
    /\ invocations = EmptyDict
    /\ responses = EmptyDict
    /\ call_map = EmptyDict
    /\ last = NoCall
    /\ ncalls = 0
    /\ observed = EmptyDict
    /\ captured = {}
    /\ proc = "training"
    /\ file = NoFile
    /\ run = NoRun
    /\ cmdline = NoCommandLine
    /\ lineno = 0
    /\ summary = NoSummary

Next ==
    \/ \E invocation \in Invocations, output \in Outputs :
          AddInvocation(invocation, output)
    \/ \E opened \in BOOLEAN, chmod \in {"ok", "failed", "unavailable"} :
          WriteMockCmd(opened, chmod)
    \/ \E args \in ArgSeqs : RunArtifact(args)

Spec == Init /\ [][Next]_vars

\* main(argv): the trainer run from its command line; no store exists
\* before main creates it.
InitMain ==
    /\ cmdline \in CommandLines
    /\ proc = "start"
    /\ lineno = 1
    /\ summary = NoSummary
    /\ cmd = <<>>
    /\ invocations = EmptyDict
    /\ responses = EmptyDict
    /\ call_map = EmptyDict
    /\ last = NoCall
    /\ ncalls = 0
    /\ observed = EmptyDict
    /\ captured = {}
    /\ file = NoFile
    /\ run = NoRun

NextMain ==
    \/ MainStart
    \/ MainFirstLine
    \/ \E output \in Outputs : MainTrainLine(output)
    \/ MainSummarize
    \/ \E opened \in BOOLEAN, chmod \in {"ok", "failed", "unavailable"} :
          WriteMockCmd(opened, chmod)
    \/ \E args \in ArgSeqs : RunArtifact(args)

SpecMain == InitMain /\ [][NextMain]_vars

-----------------------------------------------------------------------------
(* Properties *)

Range(f) == { f[k] : k \in DOMAIN f }

\* The invocation key training computes for [cmd] + args.
TrainedKey(args) == InvocationHash(<<cmd>> \o args)

\* C1: referential integrity.  In every reachable state every value of
\* call_map is a key of responses and every key of call_map is a key of
\* invocations.
C1_ReferentialIntegrity ==
    \A k \in DOMAIN call_map :
        /\ call_map[k] \in DOMAIN responses
        /\ k \in DOMAIN invocations

\* Two invocations are mapped and the latest call was a failing one.
C1_Witness ==
    /\ Cardinality(DOMAIN call_map) = 2
    /\ last.raised # "none"

\* C2: replay fidelity.  A run of the artifact with a trained argument
\* sequence is a hit, and the entry it prints is
\* responses[call_map[key]] of the store it was generated from, which is
\* the output captured by the latest accepted add_invocation with those
\* arguments; the text written to standard output begins with that entry.
C2_ReplayFidelity ==
    (run.ran /\ Tail(run.argv) \in DOMAIN observed) =>
        /\ run.hit
        /\ run.printed = responses[call_map[TrainedKey(Tail(run.argv))]]
        /\ run.printed = observed[Tail(run.argv)]
        /\ SubSeq(run.stdout, 1, Len(run.printed)) = run.printed

\* The artifact replays an invocation that was trained twice, with
\* different outputs, beside another trained invocation.
C2_Witness ==
    /\ run.ran
    /\ run.hit
    /\ Cardinality(DOMAIN observed) = 2
    /\ Cardinality(DOMAIN responses) = 3
    /\ last.warned
    /\ Tail(last.invocation) = Tail(run.argv)

\* C3: key agreement.  The invocation key the artifact computes from its
\* process arguments equals the key add_invocation computes for
\* [cmd] + arguments; with no arguments both are the digest of the empty
\* string.
C3_KeyAgreement ==
    run.ran =>
        /\ run.invocation_hash = InvocationHash(run.argv)
        /\ Len(run.argv) = 1 => run.invocation_hash = md5(<<>>)
        /\ Tail(run.argv) \in DOMAIN observed
              => run.invocation_hash \in DOMAIN invocations

\* The artifact, run without arguments, finds the trained bare command.
C3_Witness ==
    /\ run.ran
    /\ Len(run.argv) = 1
    /\ run.invocation_hash \in DOMAIN invocations
    /\ Cardinality(DOMAIN invocations) = 3

\* C4: lookup miss.  A run whose invocation key is not in the call map
\* prints the unsupported-argument message, prints no recorded output and
\* ends with a non-zero status.
C4_LookupMiss ==
    (run.ran /\ TrainedKey(Tail(run.argv)) \notin DOMAIN call_map) =>
        /\ ~run.hit
        /\ run.stdout = <<UnsupportedMsg, "\n">>
        /\ run.printed \notin Range(responses)
        /\ run.status # 0

\* A miss on a store that holds other invocations.
C4_Witness ==
    /\ run.ran
    /\ ~run.hit
    /\ Cardinality(DOMAIN call_map) = 2

\* C5: verbatim replay.  On a hit the text written to standard output is
\* exactly the stored output, nothing added.
C5_VerbatimReplay ==
    (run.ran /\ run.hit) =>
        run.stdout = responses[call_map[TrainedKey(Tail(run.argv))]]

\* A step that is one call of add_invocation.
AddStep == ncalls' = ncalls + 1

Sizes ==
    <<Cardinality(DOMAIN invocations), Cardinality(DOMAIN responses),
      Cardinality(DOMAIN call_map)>>

\* C6: root mismatch.  add_invocation with a non-empty invocation whose
\* first token does not end with the root command raises ValueError, runs
\* no command and leaves invocations, responses and call_map as they were.
C6_RootMismatchRejected ==
    [][(AddStep /\ Len(last'.invocation) > 0
                /\ ~EndsWith(last'.invocation[1], cmd)) =>
            /\ last'.raised = "ValueError"
            /\ ~last'.executed
            /\ captured' = captured
            /\ UNCHANGED <<invocations, responses, call_map>>]_vars

\* A mismatching invocation was rejected by a store that holds entries.
C6_Witness ==
    /\ last.raised = "ValueError"
    /\ Len(last.invocation) > 0
    /\ Cardinality(DOMAIN call_map) = 2

\* C7: empty invocation.  add_invocation with an empty invocation raises
\* the same ValueError as a root mismatch, runs no command and leaves the
\* store as it was.
C7_EmptyInvocationRejected ==
    [][(AddStep /\ last'.invocation = <<>>) =>
            /\ last'.raised = "ValueError"
            /\ ~last'.executed
            /\ captured' = captured
            /\ UNCHANGED <<invocations, responses, call_map>>]_vars

\* C8: deduplication.  Trained invocations whose (latest) captured outputs
\* are identical share one entry of responses, to whose key call_map maps
\* both; responses holds one entry per distinct output content observed.
C8_Deduplication ==
    /\ \A a, b \in DOMAIN observed :
          observed[a] = observed[b] =>
              /\ call_map[TrainedKey(a)] = call_map[TrainedKey(b)]
              /\ responses[call_map[TrainedKey(a)]] = observed[a]
              /\ Cardinality({k \in DOMAIN responses :
                                 responses[k] = observed[a]}) = 1
    /\ Cardinality(DOMAIN responses) = Cardinality(captured)

\* Two distinct invocations with the same output: 2 invocations, 1 output,
\* 2 map entries.
C8_Witness ==
    /\ Sizes = <<2, 1, 2>>
    /\ \E a, b \in DOMAIN observed : a # b /\ observed[a] = observed[b]

\* C9: idempotent re-training.  A call of add_invocation that repeats the
\* previous call, with the same invocation and the same output, leaves the
\* sizes of invocations, responses and call_map as the previous call left
\* them.
C9_Idempotent ==
    [][(AddStep /\ last.op = "add_invocation"
                /\ last'.invocation = last.invocation
                /\ last'.output = last.output) => Sizes' = Sizes]_vars

\* An accepted invocation was trained twice in a row with the same output.
C9_Witness ==
    /\ last.repeated
    /\ last.raised = "none"
    /\ Sizes = <<2, 2, 2>>

\* C10: last write wins.  After an accepted add_invocation, call_map maps
\* the invocation key to the key of the output that call captured.
C10_LastWriteWins ==
    (last.op = "add_invocation" /\ last.raised = "none") =>
        /\ TrainedKey(Tail(last.invocation)) \in DOMAIN call_map
        /\ call_map[TrainedKey(Tail(last.invocation))] = md5(last.output)

\* The same invocation was trained again with a different, new output.
C10_Witness ==
    /\ last.warned
    /\ call_map[TrainedKey(Tail(last.invocation))] = md5(last.output)
    /\ Cardinality(DOMAIN responses) > Cardinality(Range(call_map))

\* C11: drift warning.  An accepted add_invocation warns exactly when the
\* invocation key was already in invocations and the new output key
\* differs from the one call_map held for it.
C11_DriftWarning ==
    [][(AddStep /\ last'.raised = "none") =>
            (last'.warned <=>
                LET k == TrainedKey(Tail(last'.invocation))
                IN  /\ k \in DOMAIN invocations
                    /\ call_map[k] # md5(last'.output))]_vars

\* C12: monotonic growth.  No step removes a key of invocations or of
\* responses or changes the value under an existing key.
C12_MonotonicGrowth ==
    [][/\ \A k \in DOMAIN invocations :
             k \in DOMAIN invocations' /\ invocations'[k] = invocations[k]
       /\ \A k \in DOMAIN responses :
             k \in DOMAIN responses' /\ responses'[k] = responses[k]]_vars

\* An output superseded by drift is still in responses.
C12_Witness ==
    /\ last.warned
    /\ Cardinality(DOMAIN invocations) = 1
    /\ Cardinality(DOMAIN responses) = 3
    /\ Range(responses) = captured

\* C19: key sets coincide.  The keys of call_map are exactly the keys of
\* invocations.
C19_KeySetsCoincide == DOMAIN call_map = DOMAIN invocations

\* Two invocations are mapped while responses holds a key that no
\* call_map entry references.
C19_Witness ==
    /\ Cardinality(DOMAIN invocations) = 2
    /\ \E k \in DOMAIN responses : k \notin Range(call_map)

\* C20: the leading token does not affect the key.  An accepted call whose
\* arguments equal those of the accepted call before it, whatever the two
\* leading tokens, adds no entry to invocations or call_map and sets the
\* one shared mapping to the key of its own output.
C20_LeadingTokenIgnored ==
    [][(AddStep /\ last.op = "add_invocation" /\ last.raised = "none"
                /\ last'.raised = "none"
                /\ Tail(last'.invocation) = Tail(last.invocation)) =>
            /\ DOMAIN invocations' = DOMAIN invocations
            /\ DOMAIN call_map' = DOMAIN call_map
            /\ \E k \in DOMAIN call_map :
                  /\ call_map[k] = md5(last.output)
                  /\ call_map'[k] = md5(last'.output)
                  /\ \A j \in DOMAIN call_map \ {k} :
                        call_map'[j] = call_map[j]]_vars

\* The same arguments were accepted under two leading tokens in a row, with
\* different outputs.
C20_Witness ==
    /\ last.alias
    /\ Cardinality(DOMAIN invocations) = 1
    /\ Cardinality(DOMAIN call_map) = 1
    /\ Cardinality(DOMAIN responses) = 2

\* main is past the creation of the store.
StoreCreated ==
    proc \notin {"start", "file_mode", "SystemExit2", "AttributeError"}

\* main has ended with an exception of add_invocation.
TrainingFailed == proc \in {"ValueError", "IndexError"}

\* The training loop has read every line of the file.
LoopDone == lineno > Len(cmdline.training_file)

C14_EmptyFirstLineRejected ==
    (cmdline.training_file \in {EmptyFirstLineFile, EmptyFile}) =>
        /\ invocations = EmptyDict
        /\ last.raised = "none" => ~last.executed
        /\ ~file.exists

\* C15: summarize, serialize and write_mock_cmd leave cmd, invocations,
\* responses and call_map unchanged, and no step changes cmd once the
\* store is created.
C15_ReadOnlyObservers ==
    [][/\ proc' \in {"summarized", "done", "IOError", "OSError"} =>
             UNCHANGED <<cmd, invocations, responses, call_map>>
       /\ StoreCreated => cmd' = cmd]_vars

\* A trained store was summarized and written out.
C15_Witness ==
    /\ summary = <<2, 2, 2>>
    /\ Sizes = <<2, 2, 2>>
    /\ file.exists
    /\ file.text = Serialize

\* C16: once the artifact is written, a failure to mark it executable is
\* never fatal: the generator completes normally.
C16_SoftPermissionFailure ==
    (file.exists /\ ~file.executable) => proc = "done"

\* C17: without a training file the trainer binds the store to the
\* command of the positional invocation, trains exactly that invocation
\* and generates the artifact.
C17_SingleInvocationMode ==
    (cmdline.training_file = NoTrainingFile /\ cmdline.positional # <<>>
        /\ proc # "start") =>
        /\ proc \notin {"SystemExit2", "AttributeError"}
        /\ cmd = cmdline.positional[1]
        /\ ncalls <= 1
        /\ ncalls = 1 => last.invocation = cmdline.positional

\* C18: the artifact is written only after every line of the session was
\* accepted by add_invocation; a call that raises ends main with that
\* exception and no artifact is written.
C18_ArtifactOnlyAfterCompleteTraining ==
    /\ (file.exists \/ proc \in {"summarized", "done", "IOError", "OSError"}) =>
          /\ LoopDone
          /\ ncalls = IF cmdline.training_file = <<>> THEN 0
                      ELSE Len(cmdline.training_file) - 1
          /\ \A i \in 2..Len(cmdline.training_file) :
                Validate(Split(cmdline.training_file[i])) = "none"
    /\ (last.raised # "none" \/ TrainingFailed) =>
          /\ proc = last.raised
          /\ ~file.exists
          /\ summary = NoSummary

\* A session failed validation after an invocation had been trained.
C18_Witness ==
    /\ TrainingFailed
    /\ ncalls = 2
    /\ Cardinality(DOMAIN call_map) = 1
    /\ ~file.exists

====
